---- MODULE Spec2Model ----
(***************************************************************************)
(* Model of the schema builder of go-bold/bold (package migrations):       *)
(* the Blueprint and its column / foreign-key builders                     *)
(* (src/migrations/migrations.go) and the MySQL and PostgreSQL providers   *)
(* with their renderers (src/migrations/mysql.go, which holds both         *)
(* dialect files).                                                         *)
(*                                                                         *)
(* Strings are TLA+ strings; Sprintf is concatenation, and the strings    *)
(* package functions are computed character by character.                  *)
(* b.columns is a Go slice: a header (array, len, cap) over a backing      *)
(* array in the heap; a columnBuilder holds the address of one array       *)
(* element.                                                                *)
(***************************************************************************)
EXTENDS Integers, Sequences, FiniteSets, TLC

\* ------------------------------------------------------------ bounds
MaxCols == 2
MaxMods == 2
MaxNullCalls == 3
MaxFKs == 1
MaxFKCalls == 4
MaxCalls == 5
MaxIndexes == 2
MaxGroups == 3
MaxAppGroups == 1

\* ------------------------------------------------------------ inputs
ColNames == {"a", "b"}
TableNames == {"t"}
Dialects == {"mysql", "postgresql"}
Ops == {"Create", "Table"}
Errors == {"e1", "e2"}
IndexCols == {<<"a">>, <<"a", "b">>}
LocalColumns == {"user_id"}
ForeignColumns == {"id"}
ForeignTables == {"users"}
FKActions == {"CASCADE"}
Comments == {"c"}
AfterCols == {"a"}

Nil == [kind |-> "nil"]
NoResult == [kind |-> "none"]
Error(e) == [kind |-> "error", val |-> e]
IntValue(n) == [kind |-> "int", val |-> n]
StringValue(s) == [kind |-> "string", val |-> s]
DefaultValues == {IntValue(0)}

\* ------------------------------------------------------------ strings
\* the backquote character (U+0060) of the Go sources, which a TLA+ string literal
\* cannot hold, is written as this character
BackTick == "~"

\* strings.Contains
Contains(s, substr) ==
    \E k \in 1..(Len(s) - Len(substr) + 1) : SubSeq(s, k, k + Len(substr) - 1) = substr

\* strings.Join
RECURSIVE Join(_, _)
Join(elems, sep) ==
    IF Len(elems) = 0 THEN ""
    ELSE IF Len(elems) = 1 THEN elems[1]
    ELSE elems[1] \o sep \o Join(Tail(elems), sep)

\* strings.ReplaceAll, old non-empty (a string without old is returned as it is)
RECURSIVE ReplaceFrom(_, _, _)
ReplaceFrom(s, old, new) ==
    IF Len(s) < Len(old) THEN s
    ELSE IF SubSeq(s, 1, Len(old)) = old
         THEN new \o ReplaceFrom(SubSeq(s, Len(old) + 1, Len(s)), old, new)
         ELSE SubSeq(s, 1, 1) \o ReplaceFrom(SubSeq(s, 2, Len(s)), old, new)

ReplaceAll(s, old, new) ==
    IF ~Contains(s, old) THEN s ELSE ReplaceFrom(s, old, new)

IsSpace(c) == c \in {" ", "\n", "\t", "\r"}

\* strings.Fields: the maximal runs of non-space characters, in order
RECURSIVE FieldsFrom(_, _, _, _)
FieldsFrom(s, k, cur, acc) ==
    IF k > Len(s) THEN (IF cur = "" THEN acc ELSE Append(acc, cur))
    ELSE IF IsSpace(SubSeq(s, k, k))
         THEN FieldsFrom(s, k + 1, "", IF cur = "" THEN acc ELSE Append(acc, cur))
         ELSE FieldsFrom(s, k + 1, cur \o SubSeq(s, k, k), acc)

Fields(s) == FieldsFrom(s, 1, "", <<>>)

\* fmt.Sprintf("%v", value) of a Default value
FormatV(value) ==
    IF value.kind = "int" THEN ToString(value.val)
    ELSE IF value.kind = "string" THEN value.val
    ELSE "<nil>"

\* ------------------------------------------------------------ state
VARIABLES
    pc,         \* position in the schema operation
    dialect,    \* provider the operation was called on
    op,         \* "Create" or "Table"
    tableName,  \* blueprint.tableName
    heap,       \* backing arrays of []Column, by array id
    columns,    \* blueprint.columns: slice header [arr, len, cap]
    indexes,    \* blueprint.indexes
    foreigns,   \* blueprint.foreigns
    handles,    \* columnBuilders the callback holds: [arr, idx], the address of a Column
    fkBuilders, \* foreignKeyBuilders the callback holds
    declared,   \* history: the columns as the callback declared them (helper calls in
                \* call order, each with the modifiers called on its handle)
    trace,      \* history: the callback's calls on Foreign and on foreign-key builders
    nCalls,     \* number of builder calls the callback has made
    sqls,       \* statement list being executed
    i,          \* position in sqls
    execLog,    \* calls received by the database handle, in order: [sql, err]
    result,     \* value returned by the operation
    idxCalls,   \* history: the callback's index registrations, in call order: [kind, cols]
    rtPool,     \* routing: the RouteGroups built so far
    rtApp,      \* routing: NetHTTPApp.groups, as positions in rtPool
    rtHeap,     \* routing: backing arrays of []MiddlewareFunc allocated by flatten
    rtAll,      \* routing: allRoutes of Handler; middlewares is a slice header
    rtPc        \* routing: "build" until Handler has run, then "served"

vars == <<pc, dialect, op, tableName, heap, columns, indexes, foreigns, handles,
          fkBuilders, declared, trace, nCalls, sqls, i, execLog, result, idxCalls,
          rtPool, rtApp, rtHeap, rtAll, rtPc>>

migVars == <<pc, dialect, op, tableName, heap, columns, indexes, foreigns, handles,
             fkBuilders, declared, trace, nCalls, sqls, i, execLog, result, idxCalls>>
rtVars == <<rtPool, rtApp, rtHeap, rtAll, rtPc>>

opVars == <<dialect, op, tableName>>
colVars == <<heap, columns, handles, declared>>
fkVars == <<foreigns, fkBuilders, trace>>
exVars == <<sqls, i, execLog, result>>

\* ------------------------------------------------------------ Column and []Column
\* the zero value of Column, and the Column literal of AddColumn
Column(name, columnType) ==
    [Name |-> name, Type |-> columnType, Length |-> Nil, Nullable |-> FALSE,
     Default |-> Nil, Primary |-> FALSE, Unique |-> FALSE, Comment |-> "", After |-> ""]

ZeroColumn == Column("", "")

\* capacity chosen by append when len = cap (runtime growslice, below 256 elements;
\* for the 104-byte Column the allocator's size classes give the same 1, 2, 4, 8)
GrowCap(oldCap, newLen) ==
    IF newLen > 2 * oldCap THEN newLen ELSE 2 * oldCap

\* append(b.columns, column): the new heap and slice header
\* variant: the grown array is not filled from the old one
AppendColumnNoCopy(h, c, column) ==
    IF c.len < c.cap
    THEN [heap |-> [h EXCEPT ![c.arr][c.len + 1] = column],
          columns |-> [c EXCEPT !.len = c.len + 1]]
    ELSE LET newCap == GrowCap(c.cap, c.len + 1)
             newArr == [k \in 1..newCap |-> IF k = c.len + 1 THEN column ELSE ZeroColumn]
         IN [heap |-> Append(h, newArr),
             columns |-> [arr |-> Len(h) + 1, len |-> c.len + 1, cap |-> newCap]]

AppendColumn(h, c, column) ==
    IF c.len < c.cap
    THEN [heap |-> [h EXCEPT ![c.arr][c.len + 1] = column],
          columns |-> [c EXCEPT !.len = c.len + 1]]
    ELSE LET newCap == GrowCap(c.cap, c.len + 1)
             newArr == [k \in 1..newCap |->
                           IF k <= c.len THEN h[c.arr][k]
                           ELSE IF k = c.len + 1 THEN column ELSE ZeroColumn]
         IN [heap |-> Append(h, newArr),
             columns |-> [arr |-> Len(h) + 1, len |-> c.len + 1, cap |-> newCap]]

\* b.columns as a renderer ranges over it
ColumnsOf(h, c) == [k \in 1..c.len |-> h[c.arr][k]]
Columns == ColumnsOf(heap, columns)

Init ==
    /\ pc = "idle"
    /\ dialect = "" /\ op = "" /\ tableName = ""
    /\ heap = <<>>
    /\ columns = [arr |-> 0, len |-> 0, cap |-> 0]
    /\ indexes = <<>> /\ foreigns = <<>>
    /\ handles = <<>> /\ fkBuilders = <<>>
    /\ declared = <<>> /\ trace = <<>> /\ nCalls = 0
    /\ sqls = <<>> /\ i = 0 /\ execLog = <<>> /\ result = NoResult
    /\ idxCalls = <<>>
    /\ rtPool = <<>> /\ rtApp = [routes |-> <<>>, groups |-> <<>>] /\ rtHeap = <<>> /\ rtAll = <<>> /\ rtPc = "build"

\* Create / Table up to the call of the callback: bp := newBlueprint(tableName, db)
Begin(d, o, t) ==
    /\ pc = "idle"
    /\ pc' = "callback"
    /\ dialect' = d /\ op' = o /\ tableName' = t
    /\ heap' = <<>>
    /\ columns' = [arr |-> 0, len |-> 0, cap |-> 0]
    /\ indexes' = <<>> /\ foreigns' = <<>>
    /\ UNCHANGED <<rtVars, idxCalls, handles, fkBuilders, declared, trace, nCalls, exVars>>

\* ------------------------------------------------------------ column helpers
\* blueprint.AddColumn; keep: whether the caller keeps the returned columnBuilder
AddColumn(name, columnType, keep) ==
    LET r == AppendColumn(heap, columns, Column(name, columnType))
    IN /\ pc = "callback"
       /\ heap' = r.heap
       /\ columns' = r.columns
       /\ handles' = IF keep
                     THEN Append(handles, [arr |-> r.columns.arr, idx |-> r.columns.len])
                     ELSE handles
       /\ declared' = Append(declared, Column(name, columnType))
       /\ UNCHANGED <<rtVars, idxCalls, pc, opVars, indexes, fkVars, nCalls, exVars>>

IDType(d) ==
    IF d = "postgresql" THEN "BIGSERIAL PRIMARY KEY"
    ELSE "BIGINT UNSIGNED AUTO_INCREMENT PRIMARY KEY"

UpdatedAtType(d) ==
    IF d = "postgresql" THEN "TIMESTAMP DEFAULT CURRENT_TIMESTAMP"
    ELSE "TIMESTAMP DEFAULT CURRENT_TIMESTAMP ON UPDATE CURRENT_TIMESTAMP"

ID == AddColumn("id", IDType(dialect), TRUE)

Integer(name) == AddColumn(name, "INT", TRUE)

Text(name) == AddColumn(name, "TEXT", TRUE)

Serial(name) == dialect = "postgresql" /\ AddColumn(name, "SERIAL", TRUE)

BigSerial(name) == dialect = "postgresql" /\ AddColumn(name, "BIGSERIAL", TRUE)

\* two AddColumn calls, both builders dropped
Timestamps ==
    LET r1 == AppendColumn(heap, columns, Column("created_at", "TIMESTAMP DEFAULT CURRENT_TIMESTAMP"))
        r2 == AppendColumn(r1.heap, r1.columns, Column("updated_at", UpdatedAtType(dialect)))
    IN /\ pc = "callback"
       /\ heap' = r2.heap
       /\ columns' = r2.columns
       /\ declared' = declared \o <<Column("created_at", "TIMESTAMP DEFAULT CURRENT_TIMESTAMP"),
                                    Column("updated_at", UpdatedAtType(dialect))>>
       /\ UNCHANGED <<rtVars, idxCalls, pc, opVars, indexes, handles, fkVars, nCalls, exVars>>

\* ------------------------------------------------------------ columnBuilder
\* a store through c.column; the history records the call against the column declared
Modify(h, field, value) ==
    /\ pc = "callback"
    /\ h \in 1..Len(handles)
    /\ heap' = [heap EXCEPT ![handles[h].arr][handles[h].idx][field] = value]
    /\ declared' = [declared EXCEPT ![handles[h].idx][field] = value]
    /\ nCalls' = nCalls + 1
    /\ UNCHANGED <<rtVars, idxCalls, pc, opVars, columns, indexes, handles, fkVars, exVars>>

Nullable(h) == Modify(h, "Nullable", TRUE)

NotNullable(h) == Modify(h, "Nullable", FALSE)

Default(h, value) == Modify(h, "Default", value)

Unique(h) == Modify(h, "Unique", TRUE)

Primary(h) == Modify(h, "Primary", TRUE)

Comment(h, text) == Modify(h, "Comment", text)

After(h, column) == Modify(h, "After", column)

\* ------------------------------------------------------------ indexes
IndexFragment(cols) ==
    "INDEX " \o Join(cols, "_") \o "_index" \o " (" \o Join(cols, ", ") \o ")"

UniqueIndexFragment(cols) ==
    "UNIQUE INDEX " \o Join(cols, "_") \o "_unique" \o " (" \o Join(cols, ", ") \o ")"

PrimaryFragment(cols) == "PRIMARY KEY (" \o Join(cols, ", ") \o ")"

FullTextIndexFragment(cols) ==
    "FULLTEXT INDEX " \o Join(cols, "_") \o "_fulltext" \o " (" \o Join(cols, ", ") \o ")"

\* variant: a fragment already in the list is not appended again
RegisterIndexOnce(fragment) ==
    /\ pc = "callback"
    /\ indexes' = IF \E k \in 1..Len(indexes) : indexes[k] = fragment
                  THEN indexes ELSE Append(indexes, fragment)
    /\ UNCHANGED <<rtVars, pc, opVars, colVars, fkVars, nCalls, exVars>>

RegisterIndex(fragment) ==
    /\ pc = "callback"
    /\ indexes' = Append(indexes, fragment)
    /\ UNCHANGED <<rtVars, pc, opVars, colVars, fkVars, nCalls, exVars>>

IndexCall(kind, cols) == idxCalls' = Append(idxCalls, [kind |-> kind, cols |-> cols])

Index(cols) == RegisterIndex(IndexFragment(cols)) /\ IndexCall("Index", cols)

UniqueIndex(cols) == RegisterIndex(UniqueIndexFragment(cols)) /\ IndexCall("UniqueIndex", cols)

PrimaryKey(cols) == RegisterIndex(PrimaryFragment(cols)) /\ IndexCall("Primary", cols)

FullTextIndex(cols) ==
    RegisterIndex(FullTextIndexFragment(cols)) /\ IndexCall("FullTextIndex", cols)

\* columnBuilder.Index: c.blueprint.Index(c.column.Name)
ColumnIndex(h) ==
    /\ pc = "callback"
    /\ h \in 1..Len(handles)
    /\ indexes' = Append(indexes, IndexFragment(<<heap[handles[h].arr][handles[h].idx].Name>>))
    /\ IndexCall("Index", <<declared[handles[h].idx].Name>>)
    /\ nCalls' = nCalls + 1
    /\ UNCHANGED <<rtVars, pc, opVars, colVars, fkVars, exVars>>

\* ------------------------------------------------------------ foreignKeyBuilder
\* blueprint.Foreign
Foreign(column) ==
    /\ pc = "callback"
    /\ fkBuilders' = Append(fkBuilders,
           [localColumn |-> column, foreignTable |-> "", foreignColumn |-> "",
            onDelete |-> "", onUpdate |-> ""])
    /\ trace' = Append(trace, <<"Foreign", column>>)
    /\ UNCHANGED <<rtVars, idxCalls, pc, opVars, colVars, indexes, foreigns, nCalls, exVars>>

\* the fragment build() appends
ForeignSQL(f) ==
    Join(<<"FOREIGN KEY (" \o f.localColumn \o ")",
           "REFERENCES " \o f.foreignTable \o " (" \o f.foreignColumn \o ")">>
         \o (IF f.onDelete # "" THEN <<"ON DELETE " \o f.onDelete>> ELSE <<>>)
         \o (IF f.onUpdate # "" THEN <<"ON UPDATE " \o f.onUpdate>> ELSE <<>>),
         " ")

\* variant: a complete key overwrites the last fragment instead of appending
BuildReplacing(f, fs) ==
    IF f.foreignTable = "" \/ f.foreignColumn = ""
    THEN fs
    ELSE IF Len(fs) = 0 THEN <<ForeignSQL(f)>>
    ELSE [fs EXCEPT ![Len(fs)] = ForeignSQL(f)]

\* foreignKeyBuilder.build: b.foreigns after build() on builder f
Build(f, fs) ==
    IF f.foreignTable = "" \/ f.foreignColumn = ""
    THEN fs
    ELSE Append(fs, ForeignSQL(f))

References(k, column) ==
    /\ pc = "callback"
    /\ k \in 1..Len(fkBuilders)
    /\ fkBuilders' = [fkBuilders EXCEPT ![k].foreignColumn = column]
    /\ trace' = Append(trace, <<"References", column>>)
    /\ UNCHANGED <<rtVars, idxCalls, pc, opVars, colVars, indexes, foreigns, nCalls, exVars>>

OnDelete(k, action) ==
    /\ pc = "callback"
    /\ k \in 1..Len(fkBuilders)
    /\ fkBuilders' = [fkBuilders EXCEPT ![k].onDelete = action]
    /\ foreigns' = Build(fkBuilders'[k], foreigns)
    /\ trace' = Append(trace, <<"OnDelete", action>>)
    /\ UNCHANGED <<rtVars, idxCalls, pc, opVars, colVars, indexes, nCalls, exVars>>

OnUpdate(k, action) ==
    /\ pc = "callback"
    /\ k \in 1..Len(fkBuilders)
    /\ fkBuilders' = [fkBuilders EXCEPT ![k].onUpdate = action]
    /\ foreigns' = Build(fkBuilders'[k], foreigns)
    /\ trace' = Append(trace, <<"OnUpdate", action>>)
    /\ UNCHANGED <<rtVars, idxCalls, pc, opVars, colVars, indexes, nCalls, exVars>>

On(k, table) ==
    /\ pc = "callback"
    /\ k \in 1..Len(fkBuilders)
    /\ fkBuilders' = [fkBuilders EXCEPT ![k].foreignTable = table]
    /\ foreigns' = Build(fkBuilders'[k], foreigns)
    /\ trace' = Append(trace, <<"On", table>>)
    /\ UNCHANGED <<rtVars, idxCalls, pc, opVars, colVars, indexes, nCalls, exVars>>

\* ------------------------------------------------------------ MySQL renderer
MySQLColumnSQL(column) ==
    BackTick \o column.Name \o BackTick \o " " \o column.Type
    \o (IF ~column.Nullable THEN " NOT NULL" ELSE "")
    \o (IF column.Default # Nil THEN " DEFAULT " \o FormatV(column.Default) ELSE "")
    \o (IF column.Comment # "" THEN " COMMENT '" \o column.Comment \o "'" ELSE "")

MySQLCreateParts(cols, idxs, fks) ==
    [k \in 1..Len(cols) |-> MySQLColumnSQL(cols[k])] \o idxs \o fks

MySQLToCreateSQL(t, cols, idxs, fks) ==
    "CREATE TABLE " \o BackTick \o t \o BackTick \o " (\n  " \o Join(MySQLCreateParts(cols, idxs, fks), ",\n  ")
    \o "\n) ENGINE=InnoDB DEFAULT CHARSET=utf8mb4 COLLATE=utf8mb4_unicode_ci"

MySQLAlterColumnSQL(column) ==
    BackTick \o column.Name \o BackTick \o " " \o column.Type
    \o (IF ~column.Nullable THEN " NOT NULL" ELSE "")
    \o (IF column.Default # Nil THEN " DEFAULT " \o FormatV(column.Default) ELSE "")
    \o (IF column.After # "" THEN " AFTER " \o BackTick \o column.After \o BackTick ELSE "")

\* variant: the alter path also emits the foreign keys
MySQLToAlterSQLWithForeigns(t, cols, idxs, fks) ==
    [k \in 1..Len(cols) |-> "ALTER TABLE " \o BackTick \o t \o BackTick \o " ADD COLUMN " \o MySQLAlterColumnSQL(cols[k])]
    \o [k \in 1..Len(idxs) |-> "ALTER TABLE " \o BackTick \o t \o BackTick \o " ADD " \o idxs[k]]
    \o [k \in 1..Len(fks) |-> "ALTER TABLE " \o BackTick \o t \o BackTick \o " ADD " \o fks[k]]

MySQLToAlterSQL(t, cols, idxs, fks) ==
    [k \in 1..Len(cols) |-> "ALTER TABLE " \o BackTick \o t \o BackTick \o " ADD COLUMN " \o MySQLAlterColumnSQL(cols[k])]
    \o [k \in 1..Len(idxs) |-> "ALTER TABLE " \o BackTick \o t \o BackTick \o " ADD " \o idxs[k]]

\* ------------------------------------------------------------ PostgreSQL renderer
FormatDefaultValue(value) ==
    IF value.kind = "string" THEN "'" \o value.val \o "'"
    ELSE IF value.kind = "int" THEN FormatV(value)
    ELSE "'" \o FormatV(value) \o "'"

\* variant: NOT NULL decided by the nullability flag alone, as in the MySQL renderer
PgColumnSQLNoSerialTest(column) ==
    "\"" \o column.Name \o "\" " \o column.Type
    \o (IF ~column.Nullable THEN " NOT NULL" ELSE "")
    \o (IF column.Default # Nil THEN " DEFAULT " \o FormatDefaultValue(column.Default) ELSE "")

PgColumnSQL(column) ==
    "\"" \o column.Name \o "\" " \o column.Type
    \o (IF ~column.Nullable /\ ~Contains(column.Type, "SERIAL") THEN " NOT NULL" ELSE "")
    \o (IF column.Default # Nil THEN " DEFAULT " \o FormatDefaultValue(column.Default) ELSE "")

PgCreateParts(cols) == [k \in 1..Len(cols) |-> PgColumnSQL(cols[k])]

PgToCreateTableSQL(t, cols) ==
    "CREATE TABLE \"" \o t \o "\" (\n  " \o Join(PgCreateParts(cols), ",\n  ") \o "\n)"

FormatIndexSQL(t, index) ==
    LET replaced == ReplaceAll(index, BackTick, "\"")
        parts == Fields(replaced)
    IN IF Contains(replaced, "INDEX") /\ ~Contains(replaced, "CREATE") /\ Len(parts) >= 3
       THEN "CREATE INDEX " \o parts[2] \o " ON \"" \o t \o "\" "
            \o Join(SubSeq(parts, 3, Len(parts)), " ")
       ELSE replaced

PgToIndexSQL(t, idxs) == [k \in 1..Len(idxs) |-> FormatIndexSQL(t, idxs[k])]

FormatForeignKeySQL(t, foreign) ==
    LET replaced == ReplaceAll(foreign, BackTick, "\"")
    IN IF ~Contains(replaced, "ALTER TABLE")
       THEN "ALTER TABLE \"" \o t \o "\" ADD " \o replaced
       ELSE replaced

PgToForeignKeySQL(t, fks) == [k \in 1..Len(fks) |-> FormatForeignKeySQL(t, fks[k])]

PgAlterColumnSQL(column) ==
    "\"" \o column.Name \o "\" " \o column.Type
    \o (IF ~column.Nullable /\ ~Contains(column.Type, "SERIAL") THEN " NOT NULL" ELSE "")
    \o (IF column.Default # Nil THEN " DEFAULT " \o FormatV(column.Default) ELSE "")

PgToAlterSQL(t, cols, idxs, fks) ==
    [k \in 1..Len(cols) |-> "ALTER TABLE \"" \o t \o "\" ADD COLUMN " \o PgAlterColumnSQL(cols[k])]
    \o [k \in 1..Len(idxs) |-> "ALTER TABLE \"" \o t \o "\" ADD " \o ReplaceAll(idxs[k], BackTick, "\"")]

\* ------------------------------------------------------------ execution
ToCreateSQL(d, t, cols, idxs, fks) ==
    IF d = "mysql" THEN MySQLToCreateSQL(t, cols, idxs, fks) ELSE PgToCreateTableSQL(t, cols)

ToAlterSQL(d, t, cols, idxs, fks) ==
    IF d = "mysql" THEN MySQLToAlterSQL(t, cols, idxs, fks) ELSE PgToAlterSQL(t, cols, idxs, fks)

ExecStages == {"create", "indexes", "foreigns", "alter"}

\* the callback returns: the operation renders its first statement list
CallbackReturn ==
    /\ pc = "callback"
    /\ IF op = "Create"
       THEN /\ pc' = "create"
            /\ sqls' = <<ToCreateSQL(dialect, tableName, Columns, indexes, foreigns)>>
       ELSE /\ pc' = "alter"
            /\ sqls' = ToAlterSQL(dialect, tableName, Columns, indexes, foreigns)
    /\ i' = 1
    /\ UNCHANGED <<rtVars, idxCalls, opVars, colVars, indexes, fkVars, nCalls, execLog, result>>

\* variant: the loop goes on after a failed statement
ExecIgnoringFailure(err) ==
    /\ pc \in ExecStages
    /\ i <= Len(sqls)
    /\ execLog' = Append(execLog, [sql |-> sqls[i], err |-> err])
    /\ i' = i + 1
    /\ UNCHANGED <<rtVars, idxCalls, pc, result, opVars, colVars, indexes, fkVars, nCalls, sqls>>

\* variant: a failed statement ends the operation, which returns nil
ExecLosingError(err) ==
    /\ pc \in ExecStages
    /\ i <= Len(sqls)
    /\ execLog' = Append(execLog, [sql |-> sqls[i], err |-> err])
    /\ IF err # Nil
       THEN pc' = "done" /\ result' = Nil /\ UNCHANGED i
       ELSE i' = i + 1 /\ UNCHANGED <<pc, result>>
    /\ UNCHANGED <<rtVars, idxCalls, opVars, colVars, indexes, fkVars, nCalls, sqls>>

\* db.Exec(sqls[i]) answers err (Nil: success); if err != nil { return err }
Exec(err) ==
    /\ pc \in ExecStages
    /\ i <= Len(sqls)
    /\ execLog' = Append(execLog, [sql |-> sqls[i], err |-> err])
    /\ IF err # Nil
       THEN pc' = "done" /\ result' = err /\ UNCHANGED i
       ELSE i' = i + 1 /\ UNCHANGED <<pc, result>>
    /\ UNCHANGED <<rtVars, idxCalls, opVars, colVars, indexes, fkVars, nCalls, sqls>>

\* variant: PostgreSQL Create runs the foreign keys before the indexes
LoopEndForeignsFirst ==
    /\ pc \in ExecStages
    /\ i > Len(sqls)
    /\ IF pc = "create" /\ dialect = "postgresql"
       THEN pc' = "foreigns" /\ sqls' = PgToForeignKeySQL(tableName, foreigns) /\ i' = 1
                             /\ UNCHANGED result
       ELSE IF pc = "foreigns"
       THEN pc' = "indexes" /\ sqls' = PgToIndexSQL(tableName, indexes) /\ i' = 1
                            /\ UNCHANGED result
       ELSE pc' = "done" /\ result' = Nil /\ UNCHANGED <<sqls, i>>
    /\ UNCHANGED <<rtVars, idxCalls, opVars, colVars, indexes, fkVars, nCalls, execLog>>

\* the statement list is exhausted: the next group of PostgreSQL Create, or return nil
LoopEnd ==
    /\ pc \in ExecStages
    /\ i > Len(sqls)
    /\ IF pc = "create" /\ dialect = "postgresql"
       THEN pc' = "indexes" /\ sqls' = PgToIndexSQL(tableName, indexes) /\ i' = 1
                            /\ UNCHANGED result
       ELSE IF pc = "indexes"
       THEN pc' = "foreigns" /\ sqls' = PgToForeignKeySQL(tableName, foreigns) /\ i' = 1
                             /\ UNCHANGED result
       ELSE pc' = "done" /\ result' = Nil /\ UNCHANGED <<sqls, i>>
    /\ UNCHANGED <<rtVars, idxCalls, opVars, colVars, indexes, fkVars, nCalls, execLog>>

\* ------------------------------------------------------------ specifications
Start == \E d \in Dialects, o \in Ops, t \in TableNames : Begin(d, o, t)

\* calls the callback has made, of any kind
Budget == columns.len + Len(indexes) + Len(trace) + nCalls

\* whole operations: callback, rendering and execution
Next ==
    \/ Start
    \/ Budget < MaxCalls /\ \E name \in ColNames : Integer(name)
    \/ Budget < MaxCalls /\ \E cols \in IndexCols : Index(cols)
    \/ Budget < MaxCalls /\ \E c \in LocalColumns : Foreign(c)
    \/ Budget < MaxCalls /\ \E k \in 1..Len(fkBuilders), c \in ForeignColumns : References(k, c)
    \/ Budget < MaxCalls /\ \E k \in 1..Len(fkBuilders), t \in ForeignTables : On(k, t)
    \/ Budget < MaxCalls /\ \E k \in 1..Len(fkBuilders), a \in FKActions : OnDelete(k, a)
    \/ CallbackReturn
    \/ \E e \in Errors : Exec(Error(e))
    \/ Exec(Nil)
    \/ LoopEnd

Spec == Init /\ [][Next]_vars

\* the callback's column helpers and modifiers, in every interleaving
NextColumns ==
    \/ \E d \in Dialects, t \in TableNames : Begin(d, "Create", t)
    \/ ID /\ columns'.len <= MaxCols
    \/ \E name \in ColNames : Integer(name) /\ columns'.len <= MaxCols
    \/ Timestamps /\ columns'.len <= MaxCols
    \/ nCalls < MaxMods /\ \E h \in 1..Len(handles) : Nullable(h)
    \/ nCalls < MaxMods /\ \E h \in 1..Len(handles) : NotNullable(h)
    \/ nCalls < MaxMods /\ \E h \in 1..Len(handles), v \in DefaultValues : Default(h, v)
    \/ nCalls < MaxMods /\ \E h \in 1..Len(handles) : Unique(h)
    \/ nCalls < MaxMods /\ \E h \in 1..Len(handles) : Primary(h)
    \/ nCalls < MaxMods /\ \E h \in 1..Len(handles), text \in Comments : Comment(h, text)
    \/ nCalls < MaxMods /\ \E h \in 1..Len(handles), c \in AfterCols : After(h, c)

SpecColumns == Init /\ [][NextColumns]_vars

\* the callback's column helpers with Nullable / NotNullable only
NextNullable ==
    \/ Start
    \/ ID /\ columns'.len <= MaxCols
    \/ \E name \in ColNames : Integer(name) /\ columns'.len <= MaxCols
    \/ \E name \in ColNames : Serial(name) /\ columns'.len <= MaxCols
    \/ \E name \in ColNames : BigSerial(name) /\ columns'.len <= MaxCols
    \/ nCalls < MaxNullCalls /\ \E h \in 1..Len(handles) : Nullable(h)
    \/ nCalls < MaxNullCalls /\ \E h \in 1..Len(handles) : NotNullable(h)

SpecNullable == Init /\ [][NextNullable]_vars

\* the callback's foreign-key builder calls, in every order
NextForeign ==
    \/ Start
    \/ Len(fkBuilders) < MaxFKs /\ \E c \in LocalColumns : Foreign(c)
    \/ Len(trace) - Len(fkBuilders) < MaxFKCalls
       /\ \E k \in 1..Len(fkBuilders), c \in ForeignColumns : References(k, c)
    \/ Len(trace) - Len(fkBuilders) < MaxFKCalls
       /\ \E k \in 1..Len(fkBuilders), t \in ForeignTables : On(k, t)
    \/ Len(trace) - Len(fkBuilders) < MaxFKCalls
       /\ \E k \in 1..Len(fkBuilders), a \in FKActions : OnDelete(k, a)
    \/ Len(trace) - Len(fkBuilders) < MaxFKCalls
       /\ \E k \in 1..Len(fkBuilders), a \in FKActions : OnUpdate(k, a)

SpecForeign == Init /\ [][NextForeign]_vars

\* the callback's index registrations, on the Blueprint and through column handles,
\* then rendering and a database that accepts every statement
NextIndex ==
    \/ Start
    \/ \E name \in ColNames : Integer(name) /\ columns'.len <= MaxCols
    \/ Len(indexes) < MaxIndexes /\ \E cols \in IndexCols : Index(cols)
    \/ Len(indexes) < MaxIndexes /\ \E cols \in IndexCols : UniqueIndex(cols)
    \/ Len(indexes) < MaxIndexes /\ \E cols \in IndexCols : PrimaryKey(cols)
    \/ Len(indexes) < MaxIndexes /\ \E cols \in IndexCols : FullTextIndex(cols)
    \/ Len(indexes) < MaxIndexes /\ \E h \in 1..Len(handles) : ColumnIndex(h)
    \/ CallbackReturn
    \/ Exec(Nil)
    \/ LoopEnd

SpecIndex == Init /\ [][NextIndex]_vars

\* ------------------------------------------------------------ properties
StartsWith(s, prefix) == Len(s) >= Len(prefix) /\ SubSeq(s, 1, Len(prefix)) = prefix

Quote(d) == IF d = "mysql" THEN BackTick ELSE "\""

\* the statements the operation emits for the blueprint the callback left, in emission order
Emitted ==
    IF op = "Table" THEN ToAlterSQL(dialect, tableName, Columns, indexes, foreigns)
    ELSE IF dialect = "mysql" THEN <<MySQLToCreateSQL(tableName, Columns, indexes, foreigns)>>
    ELSE <<PgToCreateTableSQL(tableName, Columns)>>
         \o PgToIndexSQL(tableName, indexes) \o PgToForeignKeySQL(tableName, foreigns)

Executing == pc \in ExecStages \/ pc = "done"

Failed == {k \in 1..Len(execLog) : execLog[k].err # Nil}

\* C1: the database handle receives the emitted statements in emission order (its
\* call log is a prefix of the emitted list), statement k+1 is attempted only if
\* statement k succeeded, and nothing is attempted after the first failing statement.
C1_InOrderUntilFirstFailure ==
    Executing =>
        LET emitted == Emitted
        IN /\ Len(execLog) <= Len(emitted)
           /\ \A k \in 1..Len(execLog) : execLog[k].sql = emitted[k]
           /\ \A k \in 1..Len(execLog) : k < Len(execLog) => execLog[k].err = Nil

\* PostgreSQL Create of three or more statements whose second statement failed
C1_Witness ==
    /\ pc = "done" /\ dialect = "postgresql" /\ op = "Create"
    /\ Len(Emitted) >= 3
    /\ Len(execLog) = 2 /\ execLog[1].err = Nil /\ execLog[2].err # Nil

\* C2: the operation returns exactly the error of the first failing statement and nil
\* iff every emitted statement succeeded; on a failure at statement k the handle has
\* received statements 1..k and nothing else (no retry, no compensating statement).
C2_ResultIsFirstError ==
    /\ pc # "done" => result = NoResult
    /\ pc = "done" =>
          LET emitted == Emitted
              failed == Failed
          IN IF failed = {}
             THEN /\ result = Nil
                  /\ Len(execLog) = Len(emitted)
             ELSE LET k == CHOOSE f \in failed : \A g \in failed : f <= g
                  IN /\ result = execLog[k].err
                     /\ result # Nil
                     /\ Len(execLog) = k
                     /\ \A j \in 1..k : execLog[j].sql = emitted[j]

\* MySQL Table whose third statement failed with e2 after two applied statements
C2_Witness ==
    /\ pc = "done" /\ dialect = "mysql" /\ op = "Table"
    /\ Len(execLog) = 3 /\ execLog[1].err = Nil /\ execLog[2].err = Nil
    /\ result = Error("e2")

\* C7: Table emits and executes exactly one ADD COLUMN statement per declared column
\* followed by one ADD statement per index fragment, and no statement carries
\* foreign-key DDL, whatever foreign keys the callback registered.
C7_AlterHasNoForeignKeys ==
    (op = "Table" /\ Executing) =>
        LET q == Quote(dialect)
            head == "ALTER TABLE " \o q \o tableName \o q \o " ADD "
            cols == Columns
        IN /\ Len(sqls) = columns.len + Len(indexes)
           /\ \A k \in 1..columns.len :
                 StartsWith(sqls[k], head \o "COLUMN " \o q \o cols[k].Name \o q \o " "
                                          \o cols[k].Type)
           /\ \A k \in 1..Len(indexes) : sqls[columns.len + k] = head \o indexes[k]
           /\ \A k \in 1..Len(sqls) :
                 ~Contains(sqls[k], "FOREIGN KEY") /\ ~Contains(sqls[k], "REFERENCES")
           /\ \A k \in 1..Len(execLog) : execLog[k].sql = sqls[k]

\* MySQL Table that ran to the end with a column, an index and a complete foreign key
C7_Witness ==
    /\ pc = "done" /\ dialect = "mysql" /\ op = "Table" /\ result = Nil
    /\ columns.len >= 1 /\ Len(indexes) >= 1 /\ Len(foreigns) >= 1
    /\ Len(execLog) = 2

\* C8: a PostgreSQL Create in which every statement succeeded executed exactly
\* 1 + #indexes + #foreign keys statements: CREATE TABLE first, then one statement
\* per index fragment in registration order, then one ALTER TABLE ... ADD statement
\* per foreign-key fragment in registration order.
C8_PgCreateThreeGroups ==
    (dialect = "postgresql" /\ op = "Create" /\ pc = "done" /\ result = Nil) =>
        LET n == Len(indexes)
        IN /\ Len(execLog) = 1 + n + Len(foreigns)
           /\ StartsWith(execLog[1].sql, "CREATE TABLE \"" \o tableName \o "\" (")
           /\ \A k \in 1..n :
                 /\ execLog[1 + k].sql = FormatIndexSQL(tableName, indexes[k])
                 /\ ~StartsWith(execLog[1 + k].sql, "ALTER TABLE")
                 /\ ~StartsWith(execLog[1 + k].sql, "CREATE TABLE")
           /\ \A k \in 1..Len(foreigns) :
                 execLog[1 + n + k].sql =
                     "ALTER TABLE \"" \o tableName \o "\" ADD " \o foreigns[k]

\* a successful PostgreSQL Create with two different indexes and a foreign key
C8_Witness ==
    /\ dialect = "postgresql" /\ op = "Create" /\ pc = "done" /\ result = Nil
    /\ Len(indexes) = 2 /\ indexes[1] # indexes[2]
    /\ Len(foreigns) >= 1
    /\ Len(execLog) = 4

\* C3: a modifier called on the handle a column helper returned changes that column
\* in the Blueprint's column list, whenever it is called: the list the renderer reads
\* equals the columns as declared (each helper's column with every modifier called
\* on its handle applied).
C3_ModifierReachesBlueprint == Columns = declared

\* C4: the column list holds exactly one entry per column added, in call order, each
\* with the name and the type literal passed by its helper, whatever modifiers were
\* called since; and every renderer emits the column clauses in that same order.
C4_ColumnsInCallOrder ==
    LET cols == Columns
        begins(q, k) == q \o declared[k].Name \o q \o " " \o declared[k].Type
        create == MySQLCreateParts(cols, indexes, foreigns)
        pgCreate == PgCreateParts(cols)
        alter == MySQLToAlterSQL(tableName, cols, indexes, foreigns)
        pgAlter == PgToAlterSQL(tableName, cols, indexes, foreigns)
    IN /\ columns.len = Len(declared)
       /\ columns.len <= columns.cap
       /\ \A k \in 1..Len(declared) :
             /\ cols[k].Name = declared[k].Name
             /\ cols[k].Type = declared[k].Type
             /\ StartsWith(create[k], begins(BackTick, k))
             /\ StartsWith(pgCreate[k], begins("\"", k))
             /\ StartsWith(alter[k], "ALTER TABLE " \o BackTick \o tableName \o BackTick
                                      \o " ADD COLUMN " \o begins(BackTick, k))
             /\ StartsWith(pgAlter[k], "ALTER TABLE \"" \o tableName \o "\""
                                        \o " ADD COLUMN " \o begins("\"", k))
       /\ Len(pgCreate) = Len(declared)

\* two columns of different names, the first one's handle used after the second was added
C4_Witness ==
    /\ columns.len = 2 /\ Len(handles) = 2
    /\ Columns[1].Name = "a" /\ Columns[2].Name = "id"
    /\ declared[1].Comment = "c" /\ declared[2].Nullable
    /\ Columns[2].Nullable

\* C9: in PostgreSQL CREATE the clause of a column whose type literal contains SERIAL
\* never contains NOT NULL, and the clause of any other column contains NOT NULL iff
\* the column is not nullable.
C9_SerialOmitsNotNull ==
    LET cols == Columns
        clauses == PgCreateParts(cols)
    IN dialect = "postgresql" =>
          \A k \in 1..Len(cols) :
             IF Contains(cols[k].Type, "SERIAL")
             THEN ~Contains(clauses[k], "NOT NULL")
             ELSE Contains(clauses[k], "NOT NULL") <=> ~cols[k].Nullable

\* a BIGSERIAL column made nullable and not nullable again, beside a nullable INT column
C9_Witness ==
    /\ dialect = "postgresql" /\ columns.len = 2 /\ nCalls = 3
    /\ Columns[1].Type = "INT" /\ Columns[1].Nullable
    /\ Columns[2].Type = "BIGSERIAL" /\ ~Columns[2].Nullable
    /\ heap[handles[2].arr][handles[2].idx].Nullable = FALSE

\* C10: after any sequence of Nullable / NotNullable calls on a column's handle, the
\* column's nullability in the Blueprint is that of the last call (false when neither
\* was called), and the calls change no other field and no other column.
C10_NullableLastCallWins ==
    LET cols == Columns
    IN \A k \in 1..Len(cols) :
          /\ cols[k].Nullable = declared[k].Nullable
          /\ cols[k] = [Column(declared[k].Name, declared[k].Type)
                            EXCEPT !.Nullable = declared[k].Nullable]

Chain ==
    << <<"Foreign", "user_id">>, <<"References", "id">>, <<"On", "users">>,
       <<"OnDelete", "CASCADE">> >>

ChainThenOnUpdate == Append(Chain, <<"OnUpdate", "CASCADE">>)

C6_MaterializedWhenComplete ==
    \A k \in 1..Len(fkBuilders) :
        LET f == fkBuilders[k]
            complete == f.foreignTable # "" /\ f.foreignColumn # ""
            named == "FOREIGN KEY (" \o f.localColumn \o ") REFERENCES "
                     \o f.foreignTable \o " (" \o f.foreignColumn \o ")"
        IN /\ complete => \E j \in 1..Len(foreigns) : StartsWith(foreigns[j], named)
           /\ (~complete /\ Len(fkBuilders) = 1) => foreigns = <<>>

\* the index name and the column list of a call, written out for one and two columns
JoinedName(cols) == IF Len(cols) = 1 THEN cols[1] ELSE cols[1] \o "_" \o cols[2]
ColumnList(cols) == IF Len(cols) = 1 THEN cols[1] ELSE cols[1] \o ", " \o cols[2]

ExpectedFragment(call) ==
    IF call.kind = "Index"
    THEN "INDEX " \o JoinedName(call.cols) \o "_index (" \o ColumnList(call.cols) \o ")"
    ELSE IF call.kind = "UniqueIndex"
    THEN "UNIQUE INDEX " \o JoinedName(call.cols) \o "_unique (" \o ColumnList(call.cols) \o ")"
    ELSE IF call.kind = "Primary"
    THEN "PRIMARY KEY (" \o ColumnList(call.cols) \o ")"
    ELSE "FULLTEXT INDEX " \o JoinedName(call.cols) \o "_fulltext ("
         \o ColumnList(call.cols) \o ")"

\* C11: the index list holds one fragment per registration, in call order, identical
\* calls included, each named by its columns joined with _ plus _index, _unique,
\* nothing or _fulltext (the modifier Index registers its own column's name); a
\* registration appends exactly one fragment and changes no earlier fragment and no
\* column.
C11_IndexRegistration ==
    /\ [](/\ Len(indexes) = Len(idxCalls)
          /\ \A k \in 1..Len(indexes) : indexes[k] = ExpectedFragment(idxCalls[k])
          /\ (Len(idxCalls) > 0 /\ idxCalls[1] = [kind |-> "Index", cols |-> <<"a", "b">>])
                => indexes[1] = "INDEX a_b_index (a, b)"
          /\ (Len(idxCalls) > 0 /\ idxCalls[1] = [kind |-> "UniqueIndex", cols |-> <<"a">>])
                => indexes[1] = "UNIQUE INDEX a_unique (a)")
    /\ [][idxCalls' # idxCalls =>
             /\ Len(indexes') = Len(indexes) + 1
             /\ SubSeq(indexes', 1, Len(indexes)) = indexes
             /\ heap' = heap /\ columns' = columns]_vars

\* the same single-column index registered twice, once through the handle of column a
\* after column b was added
C11_Witness ==
    /\ columns.len = 2 /\ Columns[1].Name = "a" /\ Columns[2].Name = "b"
    /\ nCalls = 1
    /\ idxCalls = <<[kind |-> "Index", cols |-> <<"a">>], [kind |-> "Index", cols |-> <<"a">>]>>
    /\ indexes = <<"INDEX a_index (a)", "INDEX a_index (a)">>

\* the statement an index registration is rewritten to when only the shape
\* INDEX name (cols) is rewritten and every other fragment passes through
ExpectedPgIndexSQL(t, call) ==
    IF call.kind = "Index"
    THEN "CREATE INDEX " \o JoinedName(call.cols) \o "_index ON \"" \o t \o "\" ("
         \o ColumnList(call.cols) \o ")"
    ELSE ExpectedFragment(call)

\* C12: in PostgreSQL Create the index statements are, one per registered fragment and
\* in order, CREATE INDEX name ON "table" (cols) for a fragment produced by Index and
\* the unmodified fragment for one produced by UniqueIndex, FullTextIndex or Primary.
C12_OnlyIndexShapeRewritten ==
    (dialect = "postgresql" /\ op = "Create" /\ pc = "indexes") =>
        /\ Len(sqls) = Len(idxCalls)
        /\ \A k \in 1..Len(sqls) : sqls[k] = ExpectedPgIndexSQL(tableName, idxCalls[k])

\* ------------------------------------------------------------ routing
\* inputs
MwLists == {<<>>, <<"m1">>, <<"m2">>, <<"m1", "m2", "m3", "m4", "m5">>}
Prefixes == {"/p"}
Patterns == {"/r"}
Handlers == {"h"}

\* the nil slice
NilSlice == [arr |-> 0, len |-> 0, cap |-> 0]

\* the zero MiddlewareFunc in the unused part of a backing array
NilFunc == ""

\* &Route{method, pattern, handler}: middlewares stays nil
GET(pattern, handler) ==
    [method |-> "GET", pattern |-> pattern, handler |-> handler, middlewares |-> NilSlice]

POST(pattern, handler) ==
    [method |-> "POST", pattern |-> pattern, handler |-> handler, middlewares |-> NilSlice]

RouteLists == {<<>>} \cup {<<GET(pattern, handler)>> : pattern \in Patterns, handler \in Handlers}
AppRouteLists == {<<>>} \cup {<<POST(pattern, handler)>> : pattern \in Patterns, handler \in Handlers}

\* the elements of a slice, read through its backing array
SliceElems(h, s) == [k \in 1..s.len |-> h[s.arr][k]]

\* capacity after the allocator rounds 8-byte elements up to a size class
\* (8, 16, 24, 32, 48, 64, 80, ... bytes)
RoundUpCap(n) == IF n <= 4 THEN n ELSE n + (n % 2)

\* append(s, xs...) on []MiddlewareFunc: the new heap and the returned slice header
AppendMiddlewares(h, s, xs) ==
    LET newLen == s.len + Len(xs)
    IN IF Len(xs) = 0 THEN [heap |-> h, slice |-> s]
       ELSE IF newLen <= s.cap
       THEN [heap |-> [h EXCEPT ![s.arr] =
                          [k \in 1..s.cap |-> IF k > s.len /\ k <= newLen
                                              THEN xs[k - s.len] ELSE h[s.arr][k]]],
             slice |-> [s EXCEPT !.len = newLen]]
       ELSE LET newCap == RoundUpCap(GrowCap(s.cap, newLen))
                newArr == [k \in 1..newCap |->
                              IF k <= s.len THEN h[s.arr][k]
                              ELSE IF k <= newLen THEN xs[k - s.len] ELSE NilFunc]
            IN [heap |-> Append(h, newArr),
                slice |-> [arr |-> Len(h) + 1, len |-> newLen, cap |-> newCap]]

RECURSIVE FlattenRoutes(_, _, _, _, _, _)
RECURSIVE FlattenGroups(_, _, _, _, _, _, _)
RECURSIVE Flatten(_, _, _, _, _)

\* flatten, first loop: one new Route per route of the group
FlattenRoutes(routes, k, fullPrefix, allMiddlewares, h, res) ==
    IF k > Len(routes) THEN [heap |-> h, result |-> res]
    ELSE LET route == routes[k]
             mws == AppendMiddlewares(h, allMiddlewares, SliceElems(h, route.middlewares))
             r == [method |-> route.method, pattern |-> fullPrefix \o route.pattern,
                   handler |-> route.handler, middlewares |-> mws.slice]
         IN FlattenRoutes(routes, k + 1, fullPrefix, allMiddlewares, mws.heap,
                          Append(res, r))

\* flatten, second loop (and Handler's loop over app.groups): the subgroups in order
FlattenGroups(pool, subs, k, fullPrefix, allMiddlewares, h, res) ==
    IF k > Len(subs) THEN [heap |-> h, result |-> res]
    ELSE LET sub == Flatten(pool, subs[k], fullPrefix, allMiddlewares, h)
         IN FlattenGroups(pool, subs, k + 1, fullPrefix, allMiddlewares, sub.heap,
                          res \o sub.result)

\* RouteGroup.flatten: the heap after the call and the routes returned
Flatten(pool, g, parentPrefix, parentMiddlewares, h) ==
    LET group == pool[g]
        fullPrefix == parentPrefix \o group.prefix
        all == AppendMiddlewares(h, parentMiddlewares, group.middlewares)
        own == FlattenRoutes(group.routes, 1, fullPrefix, all.slice, all.heap, <<>>)
    IN FlattenGroups(pool, group.groups, 1, fullPrefix, all.slice, own.heap, own.result)

\* Route.handle: the handler wrapped by the route's middlewares, outermost first
Handle(h, route) == SliceElems(h, route.middlewares) \o <<route.handler>>

\* RouteBuilder.Group(prefix, items...): the items sorted by their type, in order
Group(prefix, mws, routes, subs) ==
    /\ rtPc = "build"
    /\ rtPool' = Append(rtPool, [prefix |-> prefix, middlewares |-> mws,
                                 routes |-> routes, groups |-> subs])
    /\ UNCHANGED <<rtApp, rtHeap, rtAll, rtPc, migVars>>

\* NetHTTPApp.Routes(items...)
Routes(routes, groups) ==
    /\ rtPc = "build"
    /\ rtApp' = [routes |-> rtApp.routes \o routes, groups |-> rtApp.groups \o groups]
    /\ UNCHANGED <<rtPool, rtHeap, rtAll, rtPc, migVars>>

\* NetHTTPApp.Handler: collect all routes, then register each pattern with its
\* wrapped handler (app.middlewares is never set)
Handler ==
    /\ rtPc = "build"
    /\ LET all == FlattenGroups(rtPool, rtApp.groups, 1, "", NilSlice, rtHeap, rtApp.routes)
       IN /\ rtHeap' = all.heap
          /\ rtAll' = [k \in 1..Len(all.result) |->
                         [pattern |-> all.result[k].method \o " " \o all.result[k].pattern,
                          handler |-> Handle(all.heap, all.result[k])]]
    /\ rtPc' = "served"
    /\ UNCHANGED <<rtPool, rtApp, migVars>>

\* sequences of at most two groups already built
SubGroupLists ==
    {<<>>} \cup {<<g>> : g \in 1..Len(rtPool)}
           \cup {<<g1, g2>> : g1 \in 1..Len(rtPool), g2 \in 1..Len(rtPool)}

\* groups are built bottom-up, registered with the application and served
NextRoutes ==
    \/ Len(rtPool) < MaxGroups /\ \E prefix \in Prefixes, mws \in MwLists,
                                     routes \in RouteLists, subs \in SubGroupLists :
           Group(prefix, mws, routes, subs)
    \/ Len(rtApp.groups) < MaxAppGroups /\ \E routes \in AppRouteLists, g \in 1..Len(rtPool) :
           Routes(routes, <<g>>)
    \/ Handler

SpecRoutes == Init /\ [][NextRoutes]_vars

RECURSIVE ExpectedRoutes(_, _, _, _)
RECURSIVE ExpectedOfGroups(_, _, _, _, _)

\* the registrations of a group by value: prefixes and middleware lists concatenated
ExpectedOfGroups(pool, subs, k, prefix, mws) ==
    IF k > Len(subs) THEN <<>>
    ELSE ExpectedRoutes(pool, subs[k], prefix, mws)
         \o ExpectedOfGroups(pool, subs, k + 1, prefix, mws)

ExpectedRoutes(pool, g, prefix, mws) ==
    LET group == pool[g]
        p == prefix \o group.prefix
        m == mws \o group.middlewares
    IN [k \in 1..Len(group.routes) |->
           [pattern |-> group.routes[k].method \o " " \o p \o group.routes[k].pattern,
            handler |-> m \o <<group.routes[k].handler>>]]
       \o ExpectedOfGroups(pool, group.groups, 1, p, m)

\* C13: once the application is served, there is one registration per direct route and
\* per route of every group and subgroup, in order, and each one's handler is wrapped by
\* exactly the middlewares of its ancestors from the outermost group inward, then those
\* of its own group; what one subgroup contributes never shows up in a sibling's routes.
C13_FlattenKeepsSiblingsApart ==
    rtPc = "served" =>
        rtAll = [k \in 1..Len(rtApp.routes) |->
                    [pattern |-> rtApp.routes[k].method \o " " \o rtApp.routes[k].pattern,
                     handler |-> <<rtApp.routes[k].handler>>]]
                \o ExpectedOfGroups(rtPool, rtApp.groups, 1, "", <<>>)

====
